---- MODULE Spec2Model ----
(***************************************************************************)
(* Event schemas of zerver/lib/event_schema.py.                            *)
(*                                                                         *)
(* A Python value is a tagged record [kind, val]; a validator is a record  *)
(* describing the check, and Call runs a validator on a labelled value.    *)
(* The outcome of a call is a record [status, path, why]: status "ok" for  *)
(* a normal return, otherwise the name of the exception that was raised.   *)
(***************************************************************************)
EXTENDS Integers, Sequences, FiniteSets, TLC

(***************************************************************************)
(* Bounds of the model.                                                    *)
(***************************************************************************)
\* integers that occur in events are 0 .. MaxInt
MaxInt == 4
\* longest "streams" / "subscriptions" list in an event
MaxListLen == 2
\* longest required_keys list given to check_events_dict
MaxRequired == 2
\* longest optional_keys list given to check_events_dict
MaxOptional == 1

(***************************************************************************)
(* Python values.                                                          *)
(***************************************************************************)
V_bool(b) == [kind |-> "bool", val |-> b]
V_int(n) == [kind |-> "int", val |-> n]
V_str(s) == [kind |-> "str", val |-> s]
V_none == [kind |-> "none", val |-> "None"]
V_list(l) == [kind |-> "list", val |-> l]
V_dict(d) == [kind |-> "dict", val |-> d]

\* the empty dict, {} in Python
EmptyDict == [k \in {} |-> V_none]

\* isinstance(value, cls) for the classes bool, int and str; bool is a
\* subclass of int in Python, so isinstance(True, int) is True
isinstance(value, cls) ==
    CASE cls = "bool" -> value.kind = "bool"
      [] cls = "int" -> value.kind \in {"int", "bool"}
      [] cls = "str" -> value.kind = "str"
      [] OTHER -> FALSE

\* a == b for a Python value a and an int b: True == 1 and False == 0
PyEqInt(a, n) ==
    \/ a.kind = "int" /\ a.val = n
    \/ a.kind = "bool" /\ (IF a.val THEN 1 ELSE 0) = n

(***************************************************************************)
(* Outcomes of a call.                                                     *)
(***************************************************************************)
Returned == [status |-> "ok", path |-> <<>>, why |-> ""]
Raise(exc, path, why) == [status |-> exc, path |-> path, why |-> why]

\* the label of element i (counted from 0) of a list
IndexLabel(i) == "[" \o ToString(i) \o "]"

(***************************************************************************)
(* zerver.lib.validator: primitives and combinators.                       *)
(***************************************************************************)
check_bool == [t |-> "check_bool"]
check_int == [t |-> "check_int"]
check_string == [t |-> "check_string"]
equals(x) == [t |-> "equals", x |-> x]
check_none_or(v) == [t |-> "check_none_or", v |-> v]
check_union(vs) == [t |-> "check_union", vs |-> vs]
check_list(v) == [t |-> "check_list", v |-> v]
check_dict_only(required_keys, optional_keys) ==
    [t |-> "check_dict_only", required_keys |-> required_keys,
     optional_keys |-> optional_keys]

\* the key names of a list of (key, validator) pairs
KeyNames(fields) == [i \in 1..Len(fields) |-> fields[i][1]]
KeySet(fields) == {fields[i][1] : i \in 1..Len(fields)}

RECURSIVE Call(_, _, _)
RECURSIVE CallUnion(_, _, _, _)
RECURSIVE CallElements(_, _, _, _)
RECURSIVE CallFields(_, _, _, _)
RECURSIVE FirstMissing(_, _, _)

\* check_union: the alternatives in the given order, the first success wins
CallUnion(vs, path, val, i) ==
    IF i > Len(vs) THEN Raise("ValidationError", path, "no alternative matched")
    ELSE IF Call(vs[i], path, val).status = "ok" THEN Returned
    ELSE CallUnion(vs, path, val, i + 1)

\* check_list: the elements in order, stopping at the first failure
CallElements(v, path, l, i) ==
    IF i > Len(l) THEN Returned
    ELSE LET r == Call(v, Append(path, IndexLabel(i - 1)), l[i])
         IN IF r.status = "ok" THEN CallElements(v, path, l, i + 1) ELSE r

\* the declared fields that are present, in order, stopping at the first failure
CallFields(fields, path, d, i) ==
    IF i > Len(fields) THEN Returned
    ELSE IF fields[i][1] \notin DOMAIN d THEN CallFields(fields, path, d, i + 1)
    ELSE LET r == Call(fields[i][2], Append(path, fields[i][1]), d[fields[i][1]])
         IN IF r.status = "ok" THEN CallFields(fields, path, d, i + 1) ELSE r

\* index of the first declared field absent from d, 0 when none is
FirstMissing(fields, d, i) ==
    IF i > Len(fields) THEN 0
    ELSE IF fields[i][1] \notin DOMAIN d THEN i
    ELSE FirstMissing(fields, d, i + 1)

\* check_dict_only: a mapping with every required key, each declared key
\* passing its validator, and no undeclared key
CallDictOnly(v, path, val) ==
    IF val.kind # "dict" THEN Raise("ValidationError", path, "is not a dict")
    ELSE LET d == val.val
             m == FirstMissing(v.required_keys, d, 1)
         IN IF m # 0
            THEN Raise("ValidationError", path,
                       v.required_keys[m][1] \o " key is missing")
            ELSE LET r == CallFields(v.required_keys, path, d, 1)
                 IN IF r.status # "ok" THEN r
                    ELSE LET o == CallFields(v.optional_keys, path, d, 1)
                         IN IF o.status # "ok" THEN o
                            ELSE IF DOMAIN d \subseteq
                                      KeySet(v.required_keys) \cup KeySet(v.optional_keys)
                                 THEN Returned
                                 ELSE Raise("ValidationError", path, "unexpected keys")

\* validator(var_name, val)
Call(v, path, val) ==
    CASE v.t = "check_bool" ->
           IF val.kind = "bool" THEN Returned
           ELSE Raise("ValidationError", path, "is not a boolean")
      [] v.t = "check_int" ->
           IF val.kind = "int" THEN Returned
           ELSE Raise("ValidationError", path, "is not an integer")
      [] v.t = "check_string" ->
           IF val.kind = "str" THEN Returned
           ELSE Raise("ValidationError", path, "is not a string")
      [] v.t = "equals" ->
           IF val.kind = v.x.kind /\ val.val = v.x.val THEN Returned
           ELSE Raise("ValidationError", path, "is not the expected value")
      [] v.t = "check_none_or" ->
           IF val.kind = "none" THEN Returned ELSE Call(v.v, path, val)
      [] v.t = "check_union" -> CallUnion(v.vs, path, val, 1)
      [] v.t = "check_list" ->
           IF val.kind # "list" THEN Raise("ValidationError", path, "is not a list")
           ELSE CallElements(v.v, path, val.val, 1)
      [] v.t = "check_dict_only" -> CallDictOnly(v, path, val)

(***************************************************************************)
(* zerver/lib/event_schema.py                                              *)
(***************************************************************************)
\* basic_stream_fields with the "name" field forgotten
basic_stream_fields_NoName ==
    << <<"description", check_string>>,
       <<"first_message_id", check_none_or(check_int)>>,
       <<"history_public_to_subscribers", check_bool>>,
       <<"invite_only", check_bool>>,
       <<"is_announcement_only", check_bool>>,
       <<"is_web_public", check_bool>>,
       <<"message_retention_days", equals(V_none)>>,
       <<"rendered_description", check_string>>,
       <<"stream_id", check_int>>,
       <<"stream_post_policy", check_int>> >>

basic_stream_fields ==
    << <<"description", check_string>>,
       <<"first_message_id", check_none_or(check_int)>>,
       <<"history_public_to_subscribers", check_bool>>,
       <<"invite_only", check_bool>>,
       <<"is_announcement_only", check_bool>>,
       <<"is_web_public", check_bool>>,
       <<"message_retention_days", equals(V_none)>>,
       <<"name", check_string>>,
       <<"rendered_description", check_string>>,
       <<"stream_id", check_int>>,
       <<"stream_post_policy", check_int>> >>

subscription_fields ==
    basic_stream_fields \o
    << <<"audible_notifications", check_none_or(check_bool)>>,
       <<"color", check_string>>,
       <<"desktop_notifications", check_none_or(check_bool)>>,
       <<"email_address", check_string>>,
       <<"email_notifications", check_none_or(check_bool)>>,
       <<"in_home_view", check_bool>>,
       <<"is_muted", check_bool>>,
       <<"pin_to_top", check_bool>>,
       <<"push_notifications", check_none_or(check_bool)>>,
       <<"stream_weekly_traffic", check_none_or(check_int)>>,
       <<"wildcard_mentions_notify", check_none_or(check_bool)>> >>

\* what check_events_dict hands back: the validator, or the exception that
\* aborted the construction
NoValidator == [t |-> "none"]
Constructed(v) == [raised |-> "", validator |-> v]
ConstructionRaised(exc) == [raised |-> exc, validator |-> NoValidator]

\* check_events_dict without its duplicate-key assertion
check_events_dict_NoDuplicateCheck(required_keys, optional_keys) ==
    LET rkeys == KeyNames(required_keys)
        keys == rkeys \o KeyNames(optional_keys)
    IN IF ~(\E i \in 1..Len(rkeys) : rkeys[i] = "type")
       THEN ConstructionRaised("AssertionError")
       ELSE IF \E i \in 1..Len(keys) : keys[i] = "id"
       THEN ConstructionRaised("AssertionError")
       ELSE Constructed(check_dict_only(required_keys \o << <<"id", check_int>> >>,
                                        optional_keys))

\* check_events_dict that forgets to add the "id" field
check_events_dict_NoId(required_keys, optional_keys) ==
    LET rkeys == KeyNames(required_keys)
        keys == rkeys \o KeyNames(optional_keys)
    IN IF Len(keys) # Cardinality({keys[i] : i \in 1..Len(keys)})
       THEN ConstructionRaised("AssertionError")
       ELSE IF ~(\E i \in 1..Len(rkeys) : rkeys[i] = "type")
       THEN ConstructionRaised("AssertionError")
       ELSE IF \E i \in 1..Len(keys) : keys[i] = "id"
       THEN ConstructionRaised("AssertionError")
       ELSE Constructed(check_dict_only(required_keys, optional_keys))

check_events_dict(required_keys, optional_keys) ==
    LET rkeys == KeyNames(required_keys)
        okeys == KeyNames(optional_keys)
        keys == rkeys \o okeys
    IN IF Len(keys) # Cardinality({keys[i] : i \in 1..Len(keys)})
       THEN ConstructionRaised("AssertionError")
       ELSE IF ~(\E i \in 1..Len(rkeys) : rkeys[i] = "type")
       THEN ConstructionRaised("AssertionError")
       ELSE IF \E i \in 1..Len(keys) : keys[i] = "id"
       THEN ConstructionRaised("AssertionError")
       ELSE Constructed(check_dict_only(required_keys \o << <<"id", check_int>> >>,
                                        optional_keys))

check_value == check_union(<<check_bool, check_int, check_string>>)

check_optional_value ==
    check_union(<<check_bool, check_int, check_string, equals(V_none)>>)

\* Realm.property_types of zerver.models: property name -> declared type
Realm_property_types ==
    ("mandatory_topics" :> "bool") @@
    ("bot_creation_policy" :> "int") @@
    ("default_language" :> "str") @@
    ("message_retention_days" :> "(int, NoneType)") @@
    ("video_chat_provider_name" :> "(str, NoneType)") @@
    ("legacy_threshold" :> "float")

\* UserProfile.property_types of zerver.models: setting name -> declared type
UserProfile_property_types ==
    ("default_language" :> "str") @@
    ("twenty_four_hour_time" :> "bool") @@
    ("demote_inactive_streams" :> "int") @@
    ("emojiset" :> "str")

\* Stream.STREAM_POST_POLICY_TYPES of zerver.models
STREAM_POST_POLICY_TYPES == {1, 2, 3}

_check_realm_update ==
    check_events_dict(
        << <<"type", equals(V_str("realm"))>>,
           <<"op", equals(V_str("update"))>>,
           <<"property", check_string>>,
           <<"value", check_value>> >>,
        <<>>).validator

\* check_realm_update whose final else branch returns instead of raising
check_realm_update_SilentElse(var_name, event) ==
    LET r == Call(_check_realm_update, <<var_name>>, event)
    IN IF r.status # "ok" THEN r
       ELSE LET prop == event.val["property"]
                value == event.val["value"]
            IN IF prop.val \notin DOMAIN Realm_property_types
               THEN Raise("KeyError", <<var_name>>, prop.val)
               ELSE LET property_type == Realm_property_types[prop.val]
                    IN IF property_type \in {"bool", "int", "str"}
                       THEN IF isinstance(value, property_type) THEN Returned
                            ELSE Raise("AssertionError", <<var_name>>, "isinstance")
                       ELSE IF property_type = "(int, NoneType)"
                       THEN IF isinstance(value, "int") THEN Returned
                            ELSE Raise("AssertionError", <<var_name>>, "isinstance")
                       ELSE IF property_type = "(str, NoneType)"
                       THEN IF isinstance(value, "str") THEN Returned
                            ELSE Raise("AssertionError", <<var_name>>, "isinstance")
                       ELSE Returned

check_realm_update(var_name, event) ==
    LET r == Call(_check_realm_update, <<var_name>>, event)
    IN IF r.status # "ok" THEN r
       ELSE LET prop == event.val["property"]
                value == event.val["value"]
            IN IF prop.val \notin DOMAIN Realm_property_types
               THEN Raise("KeyError", <<var_name>>, prop.val)
               ELSE LET property_type == Realm_property_types[prop.val]
                    IN IF property_type \in {"bool", "int", "str"}
                       THEN IF isinstance(value, property_type) THEN Returned
                            ELSE Raise("AssertionError", <<var_name>>, "isinstance")
                       ELSE IF property_type = "(int, NoneType)"
                       THEN IF isinstance(value, "int") THEN Returned
                            ELSE Raise("AssertionError", <<var_name>>, "isinstance")
                       ELSE IF property_type = "(str, NoneType)"
                       THEN IF isinstance(value, "str") THEN Returned
                            ELSE Raise("AssertionError", <<var_name>>, "isinstance")
                       ELSE Raise("AssertionError", <<var_name>>,
                                  "Unexpected property type")

check_stream_create ==
    check_events_dict(
        << <<"type", equals(V_str("stream"))>>,
           <<"op", equals(V_str("create"))>>,
           <<"streams", check_list(check_dict_only(basic_stream_fields, <<>>))>> >>,
        <<>>).validator

_check_stream_update ==
    check_events_dict(
        << <<"type", equals(V_str("stream"))>>,
           <<"op", equals(V_str("update"))>>,
           <<"property", check_string>>,
           <<"value", check_optional_value>>,
           <<"name", check_string>>,
           <<"stream_id", check_int>> >>,
        << <<"rendered_description", check_string>>,
           <<"history_public_to_subscribers", check_bool>> >>).validator

\* assert a; assert b: the first failing assertion raises
Assert2(var_name, a, b) ==
    IF ~a THEN Raise("AssertionError", <<var_name>>, "extra_keys")
    ELSE IF ~b THEN Raise("AssertionError", <<var_name>>, "value")
    ELSE Returned

\* check_stream_update whose email_address branch does not look at extra_keys
check_stream_update_EmailNoExtraCheck(var_name, event) ==
    LET r == Call(_check_stream_update, <<var_name>>, event)
    IN IF r.status # "ok" THEN r
       ELSE LET prop == event.val["property"].val
                value == event.val["value"]
                extra_keys == DOMAIN event.val \
                    {"id", "type", "op", "property", "value", "name", "stream_id"}
            IN CASE prop = "description" ->
                      Assert2(var_name, extra_keys = {"rendered_description"},
                              isinstance(value, "str"))
                 [] prop = "email_address" ->
                      Assert2(var_name, TRUE, isinstance(value, "str"))
                 [] prop = "invite_only" ->
                      Assert2(var_name, extra_keys = {"history_public_to_subscribers"},
                              isinstance(value, "bool"))
                 [] prop = "message_retention_days" ->
                      Assert2(var_name, extra_keys = {},
                              value.kind # "none" => isinstance(value, "int"))
                 [] prop = "name" ->
                      Assert2(var_name, extra_keys = {}, isinstance(value, "str"))
                 [] prop = "stream_post_policy" ->
                      Assert2(var_name, extra_keys = {},
                              \E p \in STREAM_POST_POLICY_TYPES : PyEqInt(value, p))
                 [] OTHER -> Raise("AssertionError", <<var_name>>, "Unknown property")

check_stream_update(var_name, event) ==
    LET r == Call(_check_stream_update, <<var_name>>, event)
    IN IF r.status # "ok" THEN r
       ELSE LET prop == event.val["property"].val
                value == event.val["value"]
                extra_keys == DOMAIN event.val \
                    {"id", "type", "op", "property", "value", "name", "stream_id"}
            IN CASE prop = "description" ->
                      Assert2(var_name, extra_keys = {"rendered_description"},
                              isinstance(value, "str"))
                 [] prop = "email_address" ->
                      Assert2(var_name, extra_keys = {}, isinstance(value, "str"))
                 [] prop = "invite_only" ->
                      Assert2(var_name, extra_keys = {"history_public_to_subscribers"},
                              isinstance(value, "bool"))
                 [] prop = "message_retention_days" ->
                      Assert2(var_name, extra_keys = {},
                              value.kind # "none" => isinstance(value, "int"))
                 [] prop = "name" ->
                      Assert2(var_name, extra_keys = {}, isinstance(value, "str"))
                 [] prop = "stream_post_policy" ->
                      Assert2(var_name, extra_keys = {},
                              \E p \in STREAM_POST_POLICY_TYPES : PyEqInt(value, p))
                 [] OTHER -> Raise("AssertionError", <<var_name>>, "Unknown property")

_check_single_subscription ==
    check_dict_only(subscription_fields,
                    << <<"subscribers", check_list(check_int)>> >>)

_check_subscription_add ==
    check_events_dict(
        << <<"type", equals(V_str("subscription"))>>,
           <<"op", equals(V_str("add"))>>,
           <<"subscriptions", check_list(_check_single_subscription)>> >>,
        <<>>).validator

RECURSIVE SubscribersLoop(_, _, _, _)
\* for sub in event["subscriptions"]: the first failing assertion raises
SubscribersLoop(var_name, subs, include_subscribers, i) ==
    IF i > Len(subs) THEN Returned
    ELSE IF include_subscribers
    THEN IF "subscribers" \in DOMAIN subs[i].val
         THEN SubscribersLoop(var_name, subs, include_subscribers, i + 1)
         ELSE Raise("AssertionError", <<var_name>>, "subscribers missing")
    ELSE IF "subscribers" \notin DOMAIN subs[i].val
         THEN SubscribersLoop(var_name, subs, include_subscribers, i + 1)
         ELSE Raise("AssertionError", <<var_name>>, "subscribers present")

\* check_subscription_add that asserts nothing when subscribers are excluded
check_subscription_add_NoElse(var_name, event, include_subscribers) ==
    LET r == Call(_check_subscription_add, <<var_name>>, event)
    IN IF r.status # "ok" THEN r
       ELSE IF include_subscribers
       THEN SubscribersLoop(var_name, event.val["subscriptions"].val, TRUE, 1)
       ELSE Returned

check_subscription_add(var_name, event, include_subscribers) ==
    LET r == Call(_check_subscription_add, <<var_name>>, event)
    IN IF r.status # "ok" THEN r
       ELSE SubscribersLoop(var_name, event.val["subscriptions"].val,
                            include_subscribers, 1)

_check_update_display_settings ==
    check_events_dict(
        << <<"type", equals(V_str("update_display_settings"))>>,
           <<"setting_name", check_string>>,
           <<"setting", check_value>>,
           <<"user", check_string>> >>,
        << <<"language_name", check_string>> >>).validator

check_update_display_settings(var_name, event) ==
    LET r == Call(_check_update_display_settings, <<var_name>>, event)
    IN IF r.status # "ok" THEN r
       ELSE LET setting_name == event.val["setting_name"].val
                setting == event.val["setting"]
            IN IF setting_name \notin DOMAIN UserProfile_property_types
               THEN Raise("KeyError", <<var_name>>, setting_name)
               ELSE IF ~isinstance(setting, UserProfile_property_types[setting_name])
               THEN Raise("AssertionError", <<var_name>>, "isinstance")
               ELSE IF setting_name = "default_language"
               THEN IF "language_name" \in DOMAIN event.val THEN Returned
                    ELSE Raise("AssertionError", <<var_name>>, "language_name missing")
               ELSE IF "language_name" \notin DOMAIN event.val THEN Returned
                    ELSE Raise("AssertionError", <<var_name>>, "language_name present")

(***************************************************************************)
(* Inputs: the events and key lists that callers hand to the schemas.      *)
(***************************************************************************)
\* a key left out of an event
Absent == [kind |-> "absent", val |-> "absent"]
Field(k, v) == IF v.kind = "absent" THEN EmptyDict ELSE (k :> v)
\* d without key k, and d with key k set to v
Drop(d, k) == [j \in DOMAIN d \ {k} |-> d[j]]
With(d, k, v) == (k :> v) @@ d

IntValues == {V_int(n) : n \in 0..MaxInt}
\* the sequences over S of length at most n
SeqUpTo(S, n) == UNION {[1..m -> S] : m \in 0..n}

\* values that are no mapping at all
NonDictEvents == {V_none, V_str("event"), V_list(<<>>)}

\* candidate (key, validator) pairs of a schema author
FieldSpecs ==
    { <<"type", equals(V_str("stream"))>>, <<"id", check_int>>,
      <<"op", check_string>>, <<"value", check_bool>> }

\* events offered to a validator built from FieldSpecs
GenericEvents ==
    { V_dict(Field("type", t) @@ Field("id", i) @@ Field("op", o)
             @@ Field("value", v) @@ Field("junk", j)) :
        t \in {Absent, V_str("stream"), V_str("realm"), V_int(1)},
        i \in {Absent, V_int(1), V_bool(TRUE), V_str("1"), V_none},
        o \in {Absent, V_str("update"), V_int(1)},
        v \in {Absent, V_bool(TRUE), V_int(1)},
        j \in {Absent, V_int(1)} } \cup NonDictEvents

IdValues == {Absent, V_int(5), V_bool(TRUE)}
ValueValues ==
    {Absent, V_bool(TRUE), V_bool(FALSE), V_str("a"), V_none, V_list(<<>>)}
        \cup IntValues

RealmUpdateEvents ==
    { V_dict(Field("type", t) @@ Field("op", o) @@ Field("property", p)
             @@ Field("value", v) @@ Field("id", i) @@ Field("junk", j)) :
        t \in {Absent, V_str("realm"), V_str("stream")},
        o \in {Absent, V_str("update"), V_str("create")},
        p \in {Absent, V_int(1), V_str("unknown_property")}
                 \cup {V_str(n) : n \in DOMAIN Realm_property_types},
        v \in ValueValues,
        i \in IdValues,
        j \in {Absent, V_int(1)} } \cup NonDictEvents

ValidStream ==
    ("description" :> V_str("d")) @@ ("first_message_id" :> V_int(1)) @@
    ("history_public_to_subscribers" :> V_bool(TRUE)) @@
    ("invite_only" :> V_bool(FALSE)) @@ ("is_announcement_only" :> V_bool(FALSE)) @@
    ("is_web_public" :> V_bool(FALSE)) @@ ("message_retention_days" :> V_none) @@
    ("name" :> V_str("n")) @@ ("rendered_description" :> V_str("r")) @@
    ("stream_id" :> V_int(1)) @@ ("stream_post_policy" :> V_int(1))

StreamObjects ==
    { V_dict(ValidStream),
      V_dict(With(ValidStream, "first_message_id", V_none)),
      V_dict(With(ValidStream, "first_message_id", V_str("1"))),
      V_dict(Drop(ValidStream, "name")),
      V_dict(Drop(ValidStream, "stream_post_policy")),
      V_dict(With(ValidStream, "name", V_int(1))),
      V_dict(With(ValidStream, "message_retention_days", V_int(1))),
      V_dict(With(ValidStream, "stream_post_policy", V_bool(TRUE))),
      V_dict(With(ValidStream, "junk", V_int(1))),
      V_str("stream") }

StreamCreateEvents ==
    { V_dict(Field("type", t) @@ Field("op", o) @@ Field("streams", s)
             @@ Field("id", i) @@ Field("junk", j)) :
        t \in {Absent, V_str("stream"), V_str("realm")},
        o \in {Absent, V_str("create"), V_str("remove")},
        s \in {Absent, V_none} \cup {V_list(l) : l \in SeqUpTo(StreamObjects, MaxListLen)},
        i \in IdValues,
        j \in {Absent, V_int(1)} } \cup NonDictEvents

\* the keys of a stream-update event other than property, value and the extras:
\* all well formed, or with one defect
StreamUpdateBase ==
    ("type" :> V_str("stream")) @@ ("op" :> V_str("update")) @@
    ("name" :> V_str("n")) @@ ("stream_id" :> V_int(1)) @@ ("id" :> V_int(5))
StreamUpdateBases ==
    { StreamUpdateBase, Drop(StreamUpdateBase, "id"), Drop(StreamUpdateBase, "name"),
      With(StreamUpdateBase, "type", V_str("realm")),
      With(StreamUpdateBase, "op", V_str("create")),
      With(StreamUpdateBase, "stream_id", V_str("1")) }

StreamProperties ==
    {"description", "email_address", "invite_only", "message_retention_days",
     "name", "stream_post_policy"}

StreamUpdateEvents ==
    { V_dict(Field("property", p) @@ Field("value", v)
             @@ Field("rendered_description", r)
             @@ Field("history_public_to_subscribers", h)
             @@ Field("junk", j) @@ b) :
        b \in StreamUpdateBases,
        p \in {Absent, V_int(1), V_str("is_web_public")}
                 \cup {V_str(n) : n \in StreamProperties},
        v \in ValueValues,
        r \in {Absent, V_str("r"), V_int(1)},
        h \in {Absent, V_bool(TRUE), V_str("h")},
        j \in {Absent, V_int(1)} } \cup NonDictEvents

ValidSubscription ==
    ValidStream @@
    ("audible_notifications" :> V_none) @@ ("color" :> V_str("c")) @@
    ("desktop_notifications" :> V_bool(TRUE)) @@ ("email_address" :> V_str("e")) @@
    ("email_notifications" :> V_none) @@ ("in_home_view" :> V_bool(TRUE)) @@
    ("is_muted" :> V_bool(FALSE)) @@ ("pin_to_top" :> V_bool(FALSE)) @@
    ("push_notifications" :> V_none) @@ ("stream_weekly_traffic" :> V_int(1)) @@
    ("wildcard_mentions_notify" :> V_none)

SubscriptionObjects ==
    { V_dict(ValidSubscription),
      V_dict(With(ValidSubscription, "subscribers", V_list(<<>>))),
      V_dict(With(ValidSubscription, "subscribers", V_list(<<V_int(1), V_int(2)>>))),
      V_dict(With(ValidSubscription, "subscribers", V_list(<<V_str("1")>>))),
      V_dict(With(ValidSubscription, "subscribers", V_none)),
      V_dict(Drop(ValidSubscription, "color")),
      V_dict(With(ValidSubscription, "junk", V_int(1))) }

SubscriptionAddEvents ==
    { V_dict(Field("type", t) @@ Field("op", o) @@ Field("subscriptions", s)
             @@ Field("id", i) @@ Field("junk", j)) :
        t \in {V_str("subscription"), V_str("stream")},
        o \in {V_str("add"), V_str("remove")},
        s \in {Absent, V_none}
                 \cup {V_list(l) : l \in SeqUpTo(SubscriptionObjects, MaxListLen)},
        i \in IdValues,
        j \in {Absent, V_int(1)} } \cup NonDictEvents

DisplaySettingsEvents ==
    { V_dict(Field("type", t) @@ Field("setting_name", n) @@ Field("setting", s)
             @@ Field("user", u) @@ Field("id", i) @@ Field("language_name", l)
             @@ Field("junk", j)) :
        t \in {V_str("update_display_settings"), V_str("realm")},
        n \in {Absent, V_int(1), V_str("unknown_setting")}
                 \cup {V_str(k) : k \in DOMAIN UserProfile_property_types},
        s \in {Absent, V_bool(TRUE), V_int(1), V_str("en"), V_none},
        u \in {Absent, V_str("user@example.com")},
        i \in IdValues,
        l \in {Absent, V_str("English"), V_int(1)},
        j \in {Absent, V_int(1)} } \cup NonDictEvents

(***************************************************************************)
(* The state: the call being made, its arguments and what came of it.      *)
(***************************************************************************)
VARIABLES
    call,                 \* the function called, "import" when none is
    required_keys,        \* arguments of the last check_events_dict
    optional_keys,
    schema,               \* what that check_events_dict handed back
    event,                \* the event given to the validator
    include_subscribers,  \* the flag given to check_subscription_add
    outcome               \* how the validation ended

vars == <<call, required_keys, optional_keys, schema, event,
          include_subscribers, outcome>>

NoOutcome == [status |-> "none", path |-> <<>>, why |-> ""]
NoSchema == Constructed(NoValidator)

\* the module is imported, nothing is called yet
Init ==
    /\ call = "import"
    /\ required_keys = <<>>
    /\ optional_keys = <<>>
    /\ schema = NoSchema
    /\ event = Absent
    /\ include_subscribers = FALSE
    /\ outcome = NoOutcome

NoConstruction ==
    /\ required_keys' = <<>>
    /\ optional_keys' = <<>>
    /\ schema' = NoSchema

\* a schema author calls check_events_dict(required_keys, optional_keys)
Construct ==
    /\ call = "import"
    /\ \E R \in SeqUpTo(FieldSpecs, MaxRequired), O \in SeqUpTo(FieldSpecs, MaxOptional) :
          /\ required_keys' = R
          /\ optional_keys' = O
          /\ schema' = check_events_dict(R, O)
    /\ call' = "check_events_dict"
    /\ event' = Absent
    /\ include_subscribers' = FALSE
    /\ outcome' = NoOutcome

\* the validator that check_events_dict returned is given an event
Validate ==
    /\ call = "check_events_dict"
    /\ schema.raised = ""
    /\ \E e \in GenericEvents :
          /\ event' = e
          /\ outcome' = Call(schema.validator, <<"event">>, e)
    /\ call' = "validator"
    /\ UNCHANGED <<required_keys, optional_keys, schema, include_subscribers>>

RealmUpdate ==
    /\ call = "import"
    /\ \E e \in RealmUpdateEvents :
          /\ event' = e
          /\ outcome' = check_realm_update("event", e)
    /\ call' = "check_realm_update"
    /\ NoConstruction
    /\ UNCHANGED include_subscribers

StreamCreate ==
    /\ call = "import"
    /\ \E e \in StreamCreateEvents :
          /\ event' = e
          /\ outcome' = Call(check_stream_create, <<"event">>, e)
    /\ call' = "check_stream_create"
    /\ NoConstruction
    /\ UNCHANGED include_subscribers

StreamUpdate ==
    /\ call = "import"
    /\ \E e \in StreamUpdateEvents :
          /\ event' = e
          /\ outcome' = check_stream_update("event", e)
    /\ call' = "check_stream_update"
    /\ NoConstruction
    /\ UNCHANGED include_subscribers

SubscriptionAdd ==
    /\ call = "import"
    /\ \E e \in SubscriptionAddEvents, flag \in BOOLEAN :
          /\ event' = e
          /\ include_subscribers' = flag
          /\ outcome' = check_subscription_add("event", e, flag)
    /\ call' = "check_subscription_add"
    /\ NoConstruction

UpdateDisplaySettings ==
    /\ call = "import"
    /\ \E e \in DisplaySettingsEvents :
          /\ event' = e
          /\ outcome' = check_update_display_settings("event", e)
    /\ call' = "check_update_display_settings"
    /\ NoConstruction
    /\ UNCHANGED include_subscribers

\* the call is over; the next one starts afresh
Done ==
    /\ call # "import"
    /\ call' = "import"
    /\ NoConstruction
    /\ event' = Absent
    /\ include_subscribers' = FALSE
    /\ outcome' = NoOutcome

Next ==
    \/ Construct
    \/ Validate
    \/ RealmUpdate
    \/ StreamCreate
    \/ StreamUpdate
    \/ SubscriptionAdd
    \/ UpdateDisplaySettings
    \/ Done

Spec == Init /\ [][Next]_vars

(***************************************************************************)
(* Properties.                                                             *)
(***************************************************************************)
Accepts(v, x) == Call(v, <<"x">>, x).status = "ok"
HasDuplicate(keys) == \E i, j \in 1..Len(keys) : i < j /\ keys[i] = keys[j]

\* C1: check_events_dict raises at construction exactly when "type" is not a
\* required key, or "id" is named in either list, or a key name occurs twice in
\* required+optional; otherwise it returns a validator; and no event is ever
\* validated by a schema whose construction raised.
C1_ConstructionFailsExactly ==
    call \in {"check_events_dict", "validator"} =>
        LET keys == KeyNames(required_keys) \o KeyNames(optional_keys)
            illegal == \/ "type" \notin KeySet(required_keys)
                       \/ "id" \in KeySet(required_keys) \cup KeySet(optional_keys)
                       \/ HasDuplicate(keys)
        IN /\ illegal => schema.raised = "AssertionError" /\ schema.validator = NoValidator
           /\ ~illegal => schema.raised = "" /\ schema.validator.t = "check_dict_only"
           /\ illegal => call = "check_events_dict" /\ outcome = NoOutcome

\* a construction aborted because one key is both required and optional
C1_Witness ==
    /\ call = "check_events_dict"
    /\ "type" \in KeySet(required_keys)
    /\ "id" \notin KeySet(required_keys) \cup KeySet(optional_keys)
    /\ KeySet(required_keys) \cap KeySet(optional_keys) # {}
    /\ schema.raised = "AssertionError"

\* C2: the validator returned by check_events_dict(R, O) accepts an event
\* exactly when it is a mapping that has every key of R and "id", whose "id" is
\* an integer, whose R and O values pass their validators and that has no key
\* outside R, O and "id"; its outcome is that of
\* check_dict_only(R + [("id", check_int)], O), and O is passed on unchanged.
C2_SameAsDictOnlyWithId ==
    call = "validator" =>
        LET d == event.val
            shape ==
                /\ event.kind = "dict"
                /\ "id" \in DOMAIN d
                /\ d["id"].kind = "int"
                /\ \A i \in 1..Len(required_keys) :
                      /\ required_keys[i][1] \in DOMAIN d
                      /\ Accepts(required_keys[i][2], d[required_keys[i][1]])
                /\ \A i \in 1..Len(optional_keys) :
                      optional_keys[i][1] \in DOMAIN d =>
                          Accepts(optional_keys[i][2], d[optional_keys[i][1]])
                /\ DOMAIN d \subseteq
                      KeySet(required_keys) \cup KeySet(optional_keys) \cup {"id"}
        IN /\ (outcome.status = "ok") <=> shape
           /\ outcome = Call(check_dict_only(required_keys \o << <<"id", check_int>> >>,
                                             optional_keys), <<"event">>, event)
           /\ schema.validator.optional_keys = optional_keys

\* an event that has everything but "id" is rejected
C2_Witness ==
    /\ call = "validator"
    /\ event.kind = "dict"
    /\ DOMAIN event.val = KeySet(required_keys)
    /\ \A i \in 1..Len(required_keys) :
          Accepts(required_keys[i][2], event.val[required_keys[i][1]])
    /\ outcome.status = "ValidationError"

\* the event passes the generic schema v
PassesGeneric(v) == Call(v, <<"event">>, event).status = "ok"

\* the kind of a value is exactly the declared one, nothing is coerced
ExactKind(value, cls) ==
    CASE cls = "bool" -> value.kind = "bool"
      [] cls = "int" -> value.kind = "int"
      [] cls = "str" -> value.kind = "str"
      [] cls = "(int, NoneType)" -> value.kind \in {"int", "none"}
      [] cls = "(str, NoneType)" -> value.kind \in {"str", "none"}
      [] OTHER -> FALSE

\* the event names a property of the realm registry
NamesRealmProperty ==
    /\ event.kind = "dict"
    /\ "property" \in DOMAIN event.val
    /\ event.val["property"].kind = "str"
    /\ event.val["property"].val \in DOMAIN Realm_property_types

\* C3: an event accepted by check_realm_update for a property declared
\* boolean, integer or string carries a value of exactly that kind: no
\* integer for a boolean property, no boolean for an integer property.
C3_RealmValueKindExact ==
    (call = "check_realm_update" /\ outcome.status = "ok") =>
        LET property_type == Realm_property_types[event.val["property"].val]
        IN property_type \in {"bool", "int", "str"} =>
              ExactKind(event.val["value"], property_type)

\* an event of realm/update shape but for the value: exact keys, literals and id
RealmUpdateShape ==
    /\ event.kind = "dict"
    /\ DOMAIN event.val = {"type", "op", "property", "value", "id"}
    /\ event.val["type"] = V_str("realm")
    /\ event.val["op"] = V_str("update")
    /\ event.val["id"].kind = "int"
    /\ event.val["property"].kind = "str"

\* C4: for a property declared integer-or-null (string-or-null) an otherwise
\* valid realm/update event is accepted exactly when its value is an integer
\* or null (a string or null).
C4_RealmNullableValue ==
    (call = "check_realm_update" /\ RealmUpdateShape /\ NamesRealmProperty) =>
        LET property_type == Realm_property_types[event.val["property"].val]
        IN property_type \in {"(int, NoneType)", "(str, NoneType)"} =>
              ((outcome.status = "ok") <=> ExactKind(event.val["value"], property_type))

\* the extra keys a stream property comes with
MandatedExtraKeys(prop) ==
    CASE prop = "description" -> {"rendered_description"}
      [] prop = "invite_only" -> {"history_public_to_subscribers"}
      [] OTHER -> {}

StreamUpdateBaseKeys == {"id", "type", "op", "property", "value", "name", "stream_id"}

\* C5: an event accepted by check_stream_update names one of the six known
\* stream properties and its keys beyond the base set are exactly the extra
\* keys mandated for that property.
C5_StreamUpdateExtraKeys ==
    (call = "check_stream_update" /\ outcome.status = "ok") =>
        /\ event.val["property"].val \in StreamProperties
        /\ DOMAIN event.val \ StreamUpdateBaseKeys =
              MandatedExtraKeys(event.val["property"].val)

\* an invite_only update with its history_public_to_subscribers extra is accepted
C5_Witness ==
    /\ call = "check_stream_update"
    /\ outcome.status = "ok"
    /\ event.val["property"] = V_str("invite_only")
    /\ DOMAIN event.val \ StreamUpdateBaseKeys = {"history_public_to_subscribers"}

\* C6: an event accepted by check_stream_update carries a value of the kind
\* its property asks for: a string for description, email_address and name, a
\* boolean for invite_only, an integer or null (no boolean) for
\* message_retention_days, an integer of the post-policy enumeration (no
\* boolean) for stream_post_policy.
C6_StreamUpdateValueKind ==
    (call = "check_stream_update" /\ outcome.status = "ok") =>
        LET prop == event.val["property"].val
            value == event.val["value"]
        IN /\ prop \in {"description", "email_address", "name"} => value.kind = "str"
           /\ prop = "invite_only" => value.kind = "bool"
           /\ prop = "message_retention_days" => value.kind \in {"int", "none"}
           /\ prop = "stream_post_policy" =>
                 value.kind = "int" /\ value.val \in STREAM_POST_POLICY_TYPES

\* C7: check_subscription_add accepts an event exactly when it passes the
\* generic schema and every subscription object carries "subscribers"
\* (include_subscribers true) or none does (include_subscribers false); an
\* empty list is accepted under either flag.
C7_SubscribersFollowFlag ==
    call = "check_subscription_add" =>
        LET subs == event.val["subscriptions"].val
        IN (outcome.status = "ok") <=>
              /\ PassesGeneric(_check_subscription_add)
              /\ \A i \in 1..Len(subs) :
                    ("subscribers" \in DOMAIN subs[i].val) <=> include_subscribers

\* with include_subscribers, a later subscription lacking "subscribers"
\* makes a schema-valid event fail
C7_Witness ==
    /\ call = "check_subscription_add"
    /\ include_subscribers
    /\ PassesGeneric(_check_subscription_add)
    /\ Len(event.val["subscriptions"].val) = 2
    /\ "subscribers" \in DOMAIN event.val["subscriptions"].val[1].val
    /\ "subscribers" \notin DOMAIN event.val["subscriptions"].val[2].val
    /\ outcome.status = "AssertionError"

\* C8: an event that passes the generic display-settings schema is accepted
\* by check_update_display_settings exactly when the kind of "setting" is the
\* one the registry declares for "setting_name" and "language_name" is
\* present exactly for setting_name "default_language".
C8_DisplaySettingsExact ==
    (call = "check_update_display_settings"
        /\ PassesGeneric(_check_update_display_settings)) =>
        LET setting_name == event.val["setting_name"].val
        IN (outcome.status = "ok") <=>
              /\ setting_name \in DOMAIN UserProfile_property_types
              /\ ExactKind(event.val["setting"], UserProfile_property_types[setting_name])
              /\ ("language_name" \in DOMAIN event.val) <=>
                    (setting_name = "default_language")

RecognizedPropertyTypes ==
    {"bool", "int", "str", "(int, NoneType)", "(str, NoneType)"}

\* C9: check_realm_update accepts no event whose property is missing from the
\* realm registry or declared there with an unrecognized type, and
\* check_update_display_settings accepts no event whose setting_name is
\* missing from the user-setting registry, whatever the value.
C9_RegistryLookupNeverSilent ==
    /\ call = "check_realm_update" =>
          (outcome.status = "ok" =>
              /\ NamesRealmProperty
              /\ Realm_property_types[event.val["property"].val]
                    \in RecognizedPropertyTypes)
    /\ call = "check_update_display_settings" =>
          (outcome.status = "ok" =>
              /\ event.kind = "dict"
              /\ "setting_name" \in DOMAIN event.val
              /\ event.val["setting_name"].kind = "str"
              /\ event.val["setting_name"].val \in DOMAIN UserProfile_property_types)

\* a schema-valid realm/update for a property declared with an unrecognized
\* type is refused
C9_Witness ==
    /\ call = "check_realm_update"
    /\ PassesGeneric(_check_realm_update)
    /\ NamesRealmProperty
    /\ Realm_property_types[event.val["property"].val] \notin RecognizedPropertyTypes
    /\ outcome.status = "AssertionError"

BasicStreamFieldNames ==
    {"description", "first_message_id", "history_public_to_subscribers",
     "invite_only", "is_announcement_only", "is_web_public",
     "message_retention_days", "name", "rendered_description", "stream_id",
     "stream_post_policy"}

\* the field check of a basic stream field
StreamFieldOk(k, v) ==
    CASE k \in {"description", "name", "rendered_description"} -> v.kind = "str"
      [] k \in {"history_public_to_subscribers", "invite_only",
                "is_announcement_only", "is_web_public"} -> v.kind = "bool"
      [] k = "first_message_id" -> v.kind \in {"int", "none"}
      [] k = "message_retention_days" -> v.kind = "none"
      [] k \in {"stream_id", "stream_post_policy"} -> v.kind = "int"
      [] OTHER -> FALSE

GoodStream(x) ==
    /\ x.kind = "dict"
    /\ DOMAIN x.val = BasicStreamFieldNames
    /\ \A k \in BasicStreamFieldNames : StreamFieldOk(k, x.val[k])

\* the "streams" list is what check_stream_create gets to look at: the event
\* has every required key, the literals match, and "streams" is a sequence
StreamsListChecked ==
    /\ event.kind = "dict"
    /\ {"type", "op", "streams", "id"} \subseteq DOMAIN event.val
    /\ event.val["type"] = V_str("stream")
    /\ event.val["op"] = V_str("create")
    /\ event.val["streams"].kind = "list"

\* C10: check_stream_create accepts an event exactly when its keys are type,
\* op, streams and id, type is "stream", op is "create", id is an integer and
\* streams is a sequence of mappings that have exactly the basic stream fields,
\* each passing its check; when an element of the list fails, the failure
\* reported is that of the lowest-indexed failing element, under a path that
\* names that index.
C10_StreamCreateExact ==
    call = "check_stream_create" =>
        /\ (outcome.status = "ok") <=>
              /\ StreamsListChecked
              /\ DOMAIN event.val = {"type", "op", "streams", "id"}
              /\ event.val["id"].kind = "int"
              /\ \A i \in 1..Len(event.val["streams"].val) :
                    GoodStream(event.val["streams"].val[i])
        /\ StreamsListChecked =>
              LET streams == event.val["streams"].val
                  bad == {i \in 1..Len(streams) : ~GoodStream(streams[i])}
              IN bad # {} =>
                    LET first == CHOOSE i \in bad : \A j \in bad : i <= j
                        path == <<"event", "streams", IndexLabel(first - 1)>>
                    IN /\ outcome.status = "ValidationError"
                       /\ Len(outcome.path) >= 3
                       /\ SubSeq(outcome.path, 1, 3) = path
                       /\ outcome = Call(check_dict_only(basic_stream_fields, <<>>),
                                         path, streams[first])

\* two failing elements: the failure reported is the missing "name" of the
\* element at index 0
C10_Witness ==
    /\ call = "check_stream_create"
    /\ StreamsListChecked
    /\ Len(event.val["streams"].val) = 2
    /\ event.val["streams"].val[1].kind = "dict"
    /\ "name" \notin DOMAIN event.val["streams"].val[1].val
    /\ ~GoodStream(event.val["streams"].val[2])
    /\ outcome.status = "ValidationError"
    /\ outcome.path = <<"event", "streams", "[0]">>

====
